---- MODULE Spec2Model ----
(***************************************************************************)
(* The minimap widget of AICanvas (src/unnamed/part_001, lines 189-483):   *)
(* content bounds, the world <-> minimap transform, wheel zoom, the        *)
(* viewport drag, click-to-jump and the layer render order.                *)
(*                                                                         *)
(* Numbers.  A JavaScript number is modelled as an exact fraction          *)
(* [n |-> numerator, d |-> denominator] in lowest terms with d >= 0.       *)
(* d = 0 holds the three non-finite values: n = 1 is Infinity, n = -1 is   *)
(* -Infinity and n = 0 is NaN.  The operators below follow IEEE-754 for    *)
(* these values (x/0, 0*Infinity, NaN propagation, NaN comparisons);       *)
(* rounding and the sign of zero are not modelled.                         *)
(***************************************************************************)
EXTENDS Integers, Sequences, FiniteSets, TLC

Abs(i) == IF i < 0 THEN -i ELSE i

Sgn(i) == IF i > 0 THEN 1 ELSE IF i < 0 THEN -1 ELSE 0

RECURSIVE Gcd(_, _)
Gcd(a, b) == IF b = 0 THEN a ELSE Gcd(b, a % b)

\* The number n/d, normalised.
Num(n, d) ==
    IF d = 0 THEN [n |-> Sgn(n), d |-> 0]
    ELSE LET g == Gcd(Abs(n), Abs(d))
             s == IF d < 0 THEN -1 ELSE 1
         IN  [n |-> (s * n) \div g, d |-> (s * d) \div g]

R(i) == [n |-> i, d |-> 1]

NaN == [n |-> 0, d |-> 0]
Infinity == [n |-> 1, d |-> 0]
NegInfinity == [n |-> -1, d |-> 0]

IsNaN(a) == a.d = 0 /\ a.n = 0
IsFinite(a) == a.d # 0

Neg(a) == [n |-> -a.n, d |-> a.d]

Add(a, b) ==
    IF IsNaN(a) \/ IsNaN(b) THEN NaN
    ELSE IF a.d = 0 /\ b.d = 0 THEN (IF a.n = b.n THEN a ELSE NaN)
    ELSE IF a.d = 0 THEN a
    ELSE IF b.d = 0 THEN b
    ELSE LET g == Gcd(a.d, b.d)
         IN  Num(a.n * (b.d \div g) + b.n * (a.d \div g), (a.d \div g) * b.d)

Sub(a, b) == Add(a, Neg(b))

Mul(a, b) ==
    IF a.d = 0 \/ b.d = 0 \/ a.n = 0 \/ b.n = 0 THEN Num(a.n * b.n, a.d * b.d)
    ELSE LET g == Gcd(Abs(a.n), b.d)
             h == Gcd(Abs(b.n), a.d)
         IN  Num((a.n \div g) * (b.n \div h), (a.d \div h) * (b.d \div g))

Div(a, b) == Mul(a, Num(b.d, b.n))

\* a < b, a <= b, a == b as JavaScript evaluates them (false when NaN is involved).
Lt(a, b) ==
    /\ ~IsNaN(a)
    /\ ~IsNaN(b)
    /\ IF a.d = 0 /\ b.d = 0 THEN a.n < b.n ELSE Add(a, Neg(b)).n < 0

Le(a, b) ==
    /\ ~IsNaN(a)
    /\ ~IsNaN(b)
    /\ IF a.d = 0 /\ b.d = 0 THEN a.n <= b.n ELSE Add(a, Neg(b)).n <= 0

Eq(a, b) == ~IsNaN(a) /\ ~IsNaN(b) /\ a = b

\* Math.min / Math.max of two numbers.
Min(a, b) == IF IsNaN(a) \/ IsNaN(b) THEN NaN ELSE IF Lt(b, a) THEN b ELSE a

Max(a, b) == IF IsNaN(a) \/ IsNaN(b) THEN NaN ELSE IF Lt(a, b) THEN b ELSE a

(***************************************************************************)
(* Program constants.                                                      *)
(***************************************************************************)
MINIMAP_WIDTH == 200
MINIMAP_HEIGHT == 150

\* The literals of the source: 0.1 (padding), 0.002 (wheel step), 0.5 and 3 (zoom clamp).
PaddingFactor == Num(1, 10)
WheelStep == Num(2, 1000)
ZoomMin == Num(1, 2)
ZoomMax == R(3)

\* An absent value (null, no call) is the empty sequence, a present one <<v>>.
None == <<>>
Some(v) == <<v>>
Val(o) == o[1]

\* selectedLayerId = null.
NoLayer == "none"

Pt(x, y) == [x |-> x, y |-> y]

(***************************************************************************)
(* Viewport, content bounds and the transform.                             *)
(***************************************************************************)
\* getViewportInWorld: offset and scale are the props, w and h are
\* window.innerWidth and window.innerHeight at the time of the call.
getViewportInWorld(offset, sc, w, h) ==
    [x |-> Div(Neg(offset.x), sc),
     y |-> Div(Neg(offset.y), sc),
     width |-> Div(R(w), sc),
     height |-> Div(R(h), sc)]

\* The forEach over the layers: acc is [minX, minY, maxX, maxY].
RECURSIVE layerExtent(_, _, _)
layerExtent(ls, i, acc) ==
    IF i > Len(ls) THEN acc
    ELSE layerExtent(ls, i + 1,
            [minX |-> Min(acc.minX, ls[i].x),
             minY |-> Min(acc.minY, ls[i].y),
             maxX |-> Max(acc.maxX, Add(ls[i].x, ls[i].width)),
             maxY |-> Max(acc.maxY, Add(ls[i].y, ls[i].height))])

\* contentBounds with the padding taken off the size instead of added to it.
contentBoundsOf_shrunk(ls, vp) ==
    LET e == layerExtent(ls, 1,
                [minX |-> vp.x, minY |-> vp.y,
                 maxX |-> Add(vp.x, vp.width), maxY |-> Add(vp.y, vp.height)])
        contentWidth == Sub(e.maxX, e.minX)
        contentHeight == Sub(e.maxY, e.minY)
        padding == Mul(Max(contentWidth, contentHeight), PaddingFactor)
    IN  [x |-> Sub(e.minX, padding),
         y |-> Sub(e.minY, padding),
         width |-> Sub(contentWidth, Mul(padding, R(2))),
         height |-> Sub(contentHeight, Mul(padding, R(2)))]

\* contentBounds with the bare viewport rectangle when there is no layer.
contentBoundsOf_bareViewport(ls, vp) ==
    IF Len(ls) = 0 THEN [x |-> vp.x, y |-> vp.y, width |-> vp.width, height |-> vp.height]
    ELSE contentBoundsOf_shrunk(ls, vp)

\* The body of the contentBounds memo, for the viewport rectangle vp.
contentBoundsOf(ls, vp) ==
    IF Len(ls) = 0 THEN
        LET padding == Mul(Max(vp.width, vp.height), PaddingFactor)
        IN  [x |-> Sub(vp.x, padding),
             y |-> Sub(vp.y, padding),
             width |-> Add(vp.width, Mul(padding, R(2))),
             height |-> Add(vp.height, Mul(padding, R(2)))]
    ELSE
        LET e == layerExtent(ls, 1,
                    [minX |-> Infinity, minY |-> Infinity,
                     maxX |-> NegInfinity, maxY |-> NegInfinity])
            minX == Min(e.minX, vp.x)
            minY == Min(e.minY, vp.y)
            maxX == Max(e.maxX, Add(vp.x, vp.width))
            maxY == Max(e.maxY, Add(vp.y, vp.height))
            contentWidth == Sub(maxX, minX)
            contentHeight == Sub(maxY, minY)
            padding == Mul(Max(contentWidth, contentHeight), PaddingFactor)
        IN  [x |-> Sub(minX, padding),
             y |-> Sub(minY, padding),
             width |-> Add(contentWidth, Mul(padding, R(2))),
             height |-> Add(contentHeight, Mul(padding, R(2)))]

\* fitScale taken from the axis that leaves no margin on the other one.
fitScale_max(cb, zoom) ==
    Mul(Max(Div(R(MINIMAP_WIDTH), cb.width), Div(R(MINIMAP_HEIGHT), cb.height)), zoom)

\* fitScale, offsetX and offsetY, computed alike by worldToMinimap and minimapToWorld.
fitScale(cb, zoom) ==
    Mul(Min(Div(R(MINIMAP_WIDTH), cb.width), Div(R(MINIMAP_HEIGHT), cb.height)), zoom)

offsetX(cb, zoom) ==
    Div(Sub(R(MINIMAP_WIDTH), Mul(cb.width, fitScale(cb, zoom))), R(2))

offsetY(cb, zoom) ==
    Div(Sub(R(MINIMAP_HEIGHT), Mul(cb.height, fitScale(cb, zoom))), R(2))

worldToMinimap(cb, zoom, worldX, worldY) ==
    [x |-> Add(Mul(Sub(worldX, cb.x), fitScale(cb, zoom)), offsetX(cb, zoom)),
     y |-> Add(Mul(Sub(worldY, cb.y), fitScale(cb, zoom)), offsetY(cb, zoom)),
     scale |-> fitScale(cb, zoom)]

\* minimapToWorld without the centring offsets.
minimapToWorld_noOffset(cb, zoom, minimapX, minimapY) ==
    [x |-> Add(Div(minimapX, fitScale(cb, zoom)), cb.x),
     y |-> Add(Div(minimapY, fitScale(cb, zoom)), cb.y)]

minimapToWorld(cb, zoom, minimapX, minimapY) ==
    [x |-> Add(Div(Sub(minimapX, offsetX(cb, zoom)), fitScale(cb, zoom)), cb.x),
     y |-> Add(Div(Sub(minimapY, offsetY(cb, zoom)), fitScale(cb, zoom)), cb.y)]

\* The body of the viewportRect memo.
viewportRectOf(vp, cb, zoom) ==
    LET topLeft == worldToMinimap(cb, zoom, vp.x, vp.y)
    IN  [x |-> topLeft.x,
         y |-> topLeft.y,
         width |-> Mul(vp.width, topLeft.scale),
         height |-> Mul(vp.height, topLeft.scale)]

\* The offset that puts the world point wp at the centre of a w x h viewport.
centerOffset(wp, sc, w, h) ==
    [x |-> Sub(Div(R(w), R(2)), Mul(wp.x, sc)),
     y |-> Sub(Div(R(h), R(2)), Mul(wp.y, sc))]

(***************************************************************************)
(* Render order (the sortedLayers memo).                                   *)
(***************************************************************************)
\* The comparator with the selection tested before the group rule.
compare_selectedFirst(a, b, sel) ==
    IF a.id = sel THEN 1
    ELSE IF b.id = sel THEN -1
    ELSE IF a.type = "group" /\ b.type # "group" THEN -1
    ELSE IF b.type = "group" /\ a.type # "group" THEN 1
    ELSE 0

\* The comparator passed to sort.
compare(a, b, sel) ==
    IF a.type = "group" /\ b.type # "group" THEN -1
    ELSE IF b.type = "group" /\ a.type # "group" THEN 1
    ELSE IF a.id = sel THEN 1
    ELSE IF b.id = sel THEN -1
    ELSE 0

\* Array.prototype.sort is stable: x goes after the last element that does not
\* compare greater than it.
RECURSIVE insertPos(_, _, _, _)
insertPos(s, j, x, sel) ==
    IF j = 0 THEN 0
    ELSE IF compare(s[j], x, sel) > 0 THEN insertPos(s, j - 1, x, sel)
    ELSE j

RECURSIVE sortFrom(_, _, _, _)
sortFrom(ls, i, acc, sel) ==
    IF i > Len(ls) THEN acc
    ELSE LET p == insertPos(acc, Len(acc), ls[i], sel)
         IN  sortFrom(ls, i + 1,
                SubSeq(acc, 1, p) \o <<ls[i]>> \o SubSeq(acc, p + 1, Len(acc)), sel)

sortedLayersOf(ls, sel) == sortFrom(ls, 1, <<>>, sel)

(***************************************************************************)
(* Inputs of the model.                                                    *)
(***************************************************************************)
Layer(id, type, x, y, w, h) ==
    [id |-> id, type |-> type, x |-> R(x), y |-> R(y), width |-> R(w), height |-> R(h)]

\* Layer lists the host passes: none, one image right of the origin, a group
\* with a zero-size note far to the upper left.
LayerSets ==
    { <<>>,
      << Layer("a", "image", 500, 100, 250, 100) >>,
      << Layer("g", "group", -750, -500, 250, 250), Layer("n", "note", -750, -500, 0, 0) >> }

\* window.innerWidth x window.innerHeight.
PhysSizes == { <<0, 0>>, <<500, 500>>, <<1000, 1000>> }

Scales == { R(1), R(2) }

InitOffsets == { Pt(R(0), R(0)) }

\* Widget-local pointer positions (clientX - rect.left, clientY - rect.top).
PointerPositions == { Pt(100, 75), Pt(50, 50), Pt(175, 125) }

\* e.deltaY of the wheel events.
WheelDeltas == { -1500, 0, 250 }

\* How many events (pointer, wheel, host) one run of the model holds.
MaxSteps == 5

\* The host applies a proposed offset whose numerators and denominators are
\* within these magnitudes (non-finite offsets included).
MaxNumerator == 5000
MaxDenominator == 12

Small(a) == Abs(a.n) <= MaxNumerator /\ a.d <= MaxDenominator

VARIABLES
    layers, selectedLayerId, canvasOffset, scale,   \* props
    innerWidth, innerHeight,                        \* window
    minimapZoom, isDraggingViewport, dragOffsetRef, \* useState / useRef
    contentBounds, viewportRect, sortedLayers,      \* useMemo values
    buttonDown, pointerIn, downTarget, clickDue,    \* the pointer
    lastEvent, steps

\* The persistence service: the history and index the application passes to
\* saveHistory, the record under the key 'history' of the canvasState store,
\* and how the last saveHistory call settled.
VARIABLES history, historyIndex, stateStore, saveResult

\* Whether dbInstance holds an open database, the value under the key
\* 'current' of the layers store, the record under the key 'viewState' of the
\* canvasState store, and the last call of a persistence operation with the
\* way its promise settled.
VARIABLES dbInstance, layersStore, viewStateStore, lastCall

persistVars == <<history, historyIndex, stateStore, saveResult,
                 dbInstance, layersStore, viewStateStore, lastCall>>

widgetVars == <<layers, selectedLayerId, canvasOffset, scale, innerWidth, innerHeight,
                minimapZoom, isDraggingViewport, dragOffsetRef,
                contentBounds, viewportRect, sortedLayers,
                buttonDown, pointerIn, downTarget, clickDue, lastEvent, steps>>

vars == <<widgetVars, persistVars>>

propVars == <<layers, selectedLayerId, canvasOffset, scale>>
windowVars == <<innerWidth, innerHeight>>
memoVars == <<contentBounds, viewportRect, sortedLayers>>
pointerVars == <<buttonDown, pointerIn, downTarget, clickDue>>

\* What the last event was: its kind, its pointer position, its deltaY, the
\* offset it passed to onViewportChange, if any, and whether a drag was active
\* when it arrived.
Event(kind, pt, deltaY, emitted) ==
    [kind |-> kind, pt |-> pt, deltaY |-> deltaY, emitted |-> emitted,
     dragging |-> isDraggingViewport]

(***************************************************************************)
(* Rendering: which memo is recomputed follows the dependency lists.       *)
(* getViewportInWorld depends on [canvasOffset, scale], contentBounds on   *)
(* [layers, getViewportInWorld], worldToMinimap on [contentBounds,         *)
(* minimapZoom], viewportRect on [getViewportInWorld, worldToMinimap].     *)
(* window.innerWidth and window.innerHeight are read when a memo runs and  *)
(* appear in no dependency list.                                           *)
(***************************************************************************)
\* contentBounds as recomputed by a render with props ls, off, sc.
renderContentBounds(ls, off, sc) ==
    contentBoundsOf(ls, getViewportInWorld(off, sc, innerWidth, innerHeight))

\* viewportRect as recomputed by a render with props off, sc over bounds cb.
renderViewportRect(off, sc, cb, zoom) ==
    viewportRectOf(getViewportInWorld(off, sc, innerWidth, innerHeight), cb, zoom)

\* A render after layers, canvasOffset or scale changed: both memos run again.
RenderProps(ls, off, sc) ==
    /\ contentBounds' = renderContentBounds(ls, off, sc)
    /\ viewportRect' = renderViewportRect(off, sc, renderContentBounds(ls, off, sc), minimapZoom)

(***************************************************************************)
(* The handlers.                                                           *)
(***************************************************************************)
\* handleMinimapClick: the offset passed to onViewportChange, or None.
handleMinimapClick(p) ==
    IF isDraggingViewport THEN None
    ELSE Some(centerOffset(minimapToWorld(contentBounds, minimapZoom, R(p.x), R(p.y)),
                           scale, innerWidth, innerHeight))

\* handleViewportMouseDown: the value stored in dragOffsetRef.current.
handleViewportMouseDown(p) ==
    LET viewportCenterX == Add(viewportRect.x, Div(viewportRect.width, R(2)))
        viewportCenterY == Add(viewportRect.y, Div(viewportRect.height, R(2)))
    IN  Pt(Sub(R(p.x), viewportCenterX), Sub(R(p.y), viewportCenterY))

\* handleMouseMove without the test of isDraggingViewport.
handleMouseMove_always(p) ==
    Some(centerOffset(minimapToWorld(contentBounds, minimapZoom,
                                     Sub(R(p.x), dragOffsetRef.x),
                                     Sub(R(p.y), dragOffsetRef.y)),
                      scale, innerWidth, innerHeight))

\* handleMouseMove: the offset passed to onViewportChange, or None.
handleMouseMove(p) ==
    IF ~isDraggingViewport THEN None
    ELSE Some(centerOffset(minimapToWorld(contentBounds, minimapZoom,
                                          Sub(R(p.x), dragOffsetRef.x),
                                          Sub(R(p.y), dragOffsetRef.y)),
                           scale, innerWidth, innerHeight))

\* handleMouseUp and handleGlobalMouseUp: isDraggingViewport after the handler,
\* given its value before.
handleMouseUp(dragging) == FALSE

handleGlobalMouseUp(dragging) == FALSE

\* handleWheel without the clamp.
handleWheel_noClamp(prev, deltaY) == Add(prev, Mul(Neg(R(deltaY)), WheelStep))

\* handleWheel with the sign of the step reversed.
handleWheel_inverted(prev, deltaY) ==
    LET zoomDelta == Mul(R(deltaY), WheelStep)
    IN  Min(Max(Add(prev, zoomDelta), ZoomMin), ZoomMax)

\* handleWheel: the new minimapZoom.
handleWheel(prev, deltaY) ==
    LET zoomDelta == Mul(Neg(R(deltaY)), WheelStep)
    IN  Min(Max(Add(prev, zoomDelta), ZoomMin), ZoomMax)

\* The viewport rectangle is the only shape that takes pointer events
\* (pointerEvents: 'all'; the layer rectangles have 'none').
OnMarker(p) ==
    /\ Le(viewportRect.x, R(p.x))
    /\ Le(R(p.x), Add(viewportRect.x, viewportRect.width))
    /\ Le(viewportRect.y, R(p.y))
    /\ Le(R(p.y), Add(viewportRect.y, viewportRect.height))

(***************************************************************************)
(* Initial state: the component has mounted with some props.               *)
(***************************************************************************)
InitWidget(ls, sel, off, sc, w, h) ==
    /\ layers = ls
    /\ selectedLayerId = sel
    /\ canvasOffset = off
    /\ scale = sc
    /\ innerWidth = w
    /\ innerHeight = h
    /\ minimapZoom = R(1)
    /\ isDraggingViewport = FALSE
    /\ dragOffsetRef = Pt(R(0), R(0))
    /\ contentBounds = contentBoundsOf(ls, getViewportInWorld(off, sc, w, h))
    /\ viewportRect = viewportRectOf(getViewportInWorld(off, sc, w, h),
                          contentBoundsOf(ls, getViewportInWorld(off, sc, w, h)), R(1))
    /\ sortedLayers = sortedLayersOf(ls, sel)
    /\ buttonDown = FALSE
    /\ downTarget = "none"
    /\ clickDue = None
    /\ lastEvent = Event("init", None, 0, None)
    /\ steps = 0

\* Nothing has been saved; the application holds the history h at index i.
InitPersistence(h, i) ==
    /\ history = h
    /\ historyIndex = i
    /\ stateStore = None
    /\ saveResult = "none"
    /\ dbInstance = FALSE
    /\ layersStore = None
    /\ viewStateStore = None
    /\ lastCall = [op |-> "none", failure |-> "none", settled |-> "none", value |-> None]

Init ==
    /\ \E ls \in LayerSets, off \in InitOffsets, sc \in Scales, sz \in PhysSizes :
          InitWidget(ls, NoLayer, off, sc, sz[1], sz[2]) /\ pointerIn = FALSE
    /\ InitPersistence(<<>>, 0)

(***************************************************************************)
(* Pointer and wheel events.  A click is dispatched right after the        *)
(* mouseup that completes it, so nothing else happens while clickDue is    *)
(* set.                                                                    *)
(***************************************************************************)
\* mousedown on the viewport rectangle.
MouseDownMarker(p) ==
    /\ clickDue = None
    /\ ~buttonDown
    /\ OnMarker(p)
    /\ isDraggingViewport' = TRUE
    /\ dragOffsetRef' = handleViewportMouseDown(p)
    /\ buttonDown' = TRUE
    /\ pointerIn' = TRUE
    /\ downTarget' = "marker"
    /\ lastEvent' = Event("down", Some(p), 0, None)
    /\ UNCHANGED <<persistVars, propVars, windowVars, memoVars, minimapZoom, clickDue>>

\* A mousedown elsewhere in the widget that starts a drag as well.
MouseDownWidget_startsDrag(p) ==
    /\ clickDue = None
    /\ ~buttonDown
    /\ ~OnMarker(p)
    /\ isDraggingViewport' = TRUE
    /\ buttonDown' = TRUE
    /\ pointerIn' = TRUE
    /\ downTarget' = "widget"
    /\ lastEvent' = Event("down", Some(p), 0, None)
    /\ UNCHANGED <<persistVars, propVars, windowVars, memoVars, minimapZoom, dragOffsetRef, clickDue>>

\* mousedown elsewhere in the widget: no handler is attached.
MouseDownWidget(p) ==
    /\ clickDue = None
    /\ ~buttonDown
    /\ ~OnMarker(p)
    /\ buttonDown' = TRUE
    /\ pointerIn' = TRUE
    /\ downTarget' = "widget"
    /\ lastEvent' = Event("down", Some(p), 0, None)
    /\ UNCHANGED <<persistVars, propVars, windowVars, memoVars, minimapZoom, isDraggingViewport,
                   dragOffsetRef, clickDue>>

\* mousedown outside the widget.
MouseDownOutside ==
    /\ clickDue = None
    /\ ~buttonDown
    /\ ~pointerIn
    /\ buttonDown' = TRUE
    /\ downTarget' = "outside"
    /\ lastEvent' = Event("down", None, 0, None)
    /\ UNCHANGED <<persistVars, propVars, windowVars, memoVars, minimapZoom, isDraggingViewport,
                   dragOffsetRef, pointerIn, clickDue>>

\* mousemove over the widget (onMouseMove).
MouseMove(p) ==
    /\ clickDue = None
    /\ pointerIn' = TRUE
    /\ lastEvent' = Event("move", Some(p), 0, handleMouseMove(p))
    /\ UNCHANGED <<persistVars, propVars, windowVars, memoVars, minimapZoom, isDraggingViewport,
                   dragOffsetRef, buttonDown, downTarget, clickDue>>

\* The pointer leaves the widget (onMouseLeave = handleMouseUp).
MouseLeave ==
    /\ clickDue = None
    /\ pointerIn
    /\ pointerIn' = FALSE
    /\ isDraggingViewport' = handleMouseUp(isDraggingViewport)
    /\ lastEvent' = Event("leave", None, 0, None)
    /\ UNCHANGED <<persistVars, propVars, windowVars, memoVars, minimapZoom, dragOffsetRef,
                   buttonDown, downTarget, clickDue>>

\* A mouseup over the widget that leaves the drag state as it is.
MouseUpInside_noReset(p) ==
    /\ clickDue = None
    /\ buttonDown
    /\ pointerIn
    /\ buttonDown' = FALSE
    /\ clickDue' = IF downTarget \in {"marker", "widget"} THEN Some(p) ELSE None
    /\ lastEvent' = Event("up", Some(p), 0, None)
    /\ UNCHANGED <<persistVars, propVars, windowVars, memoVars, minimapZoom, isDraggingViewport,
                   dragOffsetRef, pointerIn, downTarget>>

\* mouseup over the widget: onMouseUp, then the window listener.  A click
\* follows when the mousedown was in the widget too.
MouseUpInside(p) ==
    /\ clickDue = None
    /\ buttonDown
    /\ pointerIn
    /\ isDraggingViewport' = handleGlobalMouseUp(handleMouseUp(isDraggingViewport))
    /\ buttonDown' = FALSE
    /\ clickDue' = IF downTarget \in {"marker", "widget"} THEN Some(p) ELSE None
    /\ lastEvent' = Event("up", Some(p), 0, None)
    /\ UNCHANGED <<persistVars, propVars, windowVars, memoVars, minimapZoom, dragOffsetRef,
                   pointerIn, downTarget>>

\* mouseup outside the widget: only the window listener runs.
MouseUpOutside ==
    /\ clickDue = None
    /\ buttonDown
    /\ ~pointerIn
    /\ isDraggingViewport' = handleGlobalMouseUp(isDraggingViewport)
    /\ buttonDown' = FALSE
    /\ lastEvent' = Event("up", None, 0, None)
    /\ UNCHANGED <<persistVars, propVars, windowVars, memoVars, minimapZoom, dragOffsetRef,
                   pointerIn, downTarget, clickDue>>

\* The click that follows a mouseup in the widget (onClick).
Click ==
    /\ clickDue # None
    /\ clickDue' = None
    /\ lastEvent' = Event("click", clickDue, 0, handleMinimapClick(Val(clickDue)))
    /\ UNCHANGED <<persistVars, propVars, windowVars, memoVars, minimapZoom, isDraggingViewport,
                   dragOffsetRef, buttonDown, pointerIn, downTarget>>

\* A wheel event over the widget; a changed zoom re-renders and recomputes
\* viewportRect (contentBounds does not depend on the zoom).
Wheel(deltaY) ==
    /\ clickDue = None
    /\ pointerIn
    /\ minimapZoom' = handleWheel(minimapZoom, deltaY)
    /\ viewportRect' =
          IF handleWheel(minimapZoom, deltaY) = minimapZoom THEN viewportRect
          ELSE renderViewportRect(canvasOffset, scale, contentBounds,
                                  handleWheel(minimapZoom, deltaY))
    /\ lastEvent' = Event("wheel", None, deltaY, None)
    /\ UNCHANGED <<persistVars, propVars, windowVars, contentBounds, sortedLayers, isDraggingViewport,
                   dragOffsetRef, pointerVars>>

(***************************************************************************)
(* The host: it owns layers, the view state and the window.                *)
(***************************************************************************)
\* The host takes the offset just passed to onViewportChange as the new
\* canvasOffset (a new object, so the memos run again).  The event keeps the
\* pointer position of the click or mousemove that proposed the offset.
HostApply ==
    /\ clickDue = None
    /\ lastEvent.emitted # None
    /\ Small(Val(lastEvent.emitted).x)
    /\ Small(Val(lastEvent.emitted).y)
    /\ canvasOffset' = Val(lastEvent.emitted)
    /\ RenderProps(layers, Val(lastEvent.emitted), scale)
    /\ lastEvent' = Event("apply", lastEvent.pt, 0, None)
    /\ UNCHANGED <<persistVars, layers, selectedLayerId, scale, windowVars, sortedLayers, minimapZoom,
                   isDraggingViewport, dragOffsetRef, pointerVars>>

\* The layer list changes.
SetLayers(ls) ==
    /\ clickDue = None
    /\ ls # layers
    /\ layers' = ls
    /\ RenderProps(ls, canvasOffset, scale)
    /\ sortedLayers' = sortedLayersOf(ls, selectedLayerId)
    /\ lastEvent' = Event("props", None, 0, None)
    /\ UNCHANGED <<persistVars, selectedLayerId, canvasOffset, scale, windowVars, minimapZoom,
                   isDraggingViewport, dragOffsetRef, pointerVars>>

\* A change of the canvas scale that also puts the minimap zoom back to 1.
SetScale_resetsZoom(sc) ==
    /\ clickDue = None
    /\ sc # scale
    /\ scale' = sc
    /\ minimapZoom' = R(1)
    /\ contentBounds' = renderContentBounds(layers, canvasOffset, sc)
    /\ viewportRect' = renderViewportRect(canvasOffset, sc,
                            renderContentBounds(layers, canvasOffset, sc), R(1))
    /\ lastEvent' = Event("props", None, 0, None)
    /\ UNCHANGED <<persistVars, layers, selectedLayerId, canvasOffset, windowVars, sortedLayers,
                   isDraggingViewport, dragOffsetRef, pointerVars>>

\* The main canvas is zoomed.
SetScale(sc) ==
    /\ clickDue = None
    /\ sc # scale
    /\ scale' = sc
    /\ RenderProps(layers, canvasOffset, sc)
    /\ lastEvent' = Event("props", None, 0, None)
    /\ UNCHANGED <<persistVars, layers, selectedLayerId, canvasOffset, windowVars, sortedLayers,
                   minimapZoom, isDraggingViewport, dragOffsetRef, pointerVars>>

\* The window is resized: no prop and no state of the widget changes, so no
\* memo runs.
Resize(w, h) ==
    /\ clickDue = None
    /\ <<w, h>> # <<innerWidth, innerHeight>>
    /\ innerWidth' = w
    /\ innerHeight' = h
    /\ lastEvent' = Event("resize", None, 0, None)
    /\ UNCHANGED <<persistVars, propVars, memoVars, minimapZoom, isDraggingViewport, dragOffsetRef,
                   pointerVars>>

\* Every event counts as one step of the run.
Step ==
    /\ steps < MaxSteps
    /\ steps' = steps + 1

Next ==
    \/ \E p \in PointerPositions : (Step /\ MouseDownMarker(p))
    \/ \E p \in PointerPositions : (Step /\ MouseDownWidget(p))
    \/ (Step /\ MouseDownOutside)
    \/ \E p \in PointerPositions : (Step /\ MouseMove(p))
    \/ (Step /\ MouseLeave)
    \/ \E p \in PointerPositions : (Step /\ MouseUpInside(p))
    \/ (Step /\ MouseUpOutside)
    \/ (Step /\ Click)
    \/ \E d \in WheelDeltas : (Step /\ Wheel(d))
    \/ (Step /\ HostApply)
    \/ \E ls \in LayerSets : (Step /\ SetLayers(ls))
    \/ \E sc \in Scales : (Step /\ SetScale(sc))
    \/ \E sz \in PhysSizes : (Step /\ Resize(sz[1], sz[2]))

Spec == Init /\ [][Next]_vars

(***************************************************************************)
(* The render order alone: every layer list of up to MaxSortLayers layers  *)
(* of the types below, and every selection.                                *)
(***************************************************************************)
MaxSortLayers == 4

SortIds == <<"a", "b", "c", "d", "e", "f">>

LayerTypes == {"group", "image", "note"}

SortLayers(types) ==
    [i \in 1..Len(types) |-> Layer(SortIds[i], types[i], 0, 0, 100, 100)]

SortLayerLists ==
    UNION { { SortLayers(t) : t \in [1..n -> LayerTypes] } : n \in 0..MaxSortLayers }

LayerIds(ls) == { ls[i].id : i \in 1..Len(ls) }

InitSort ==
    /\ \E ls \in SortLayerLists :
          InitWidget(ls, NoLayer, Pt(R(0), R(0)), R(1), 500, 500) /\ pointerIn = FALSE
    /\ InitPersistence(<<>>, 0)

\* The selection changes: the sortedLayers memo runs again.
SelectLayer(id) ==
    /\ id # selectedLayerId
    /\ selectedLayerId' = id
    /\ sortedLayers' = sortedLayersOf(layers, id)
    /\ lastEvent' = Event("props", None, 0, None)
    /\ UNCHANGED <<persistVars, layers, canvasOffset, scale, windowVars, contentBounds, viewportRect,
                   minimapZoom, isDraggingViewport, dragOffsetRef, pointerVars, steps>>

NextSort == \E id \in LayerIds(layers) \cup {NoLayer} : SelectLayer(id)

SpecSort == InitSort /\ [][NextSort]_vars

(***************************************************************************)
(* The geometry alone: layer lists of up to MaxGeomLayers layers placed    *)
(* left and right, above and below the origin, with and without extent,    *)
(* under every view state and window size below; the pointer rests over    *)
(* the widget.  The host pans the canvas and the wheel zooms the minimap.  *)
(***************************************************************************)
MaxGeomLayers == 2

GeomLayerChoices ==
    { Layer("a", t, x, y, sz[1], sz[2]) :
        t \in {"image"}, x \in {-400, 300}, y \in {-400, 300}, sz \in {<<0, 0>>, <<200, 100>>} }

GeomLayerLists ==
    { [i \in 1..Len(l) |-> [l[i] EXCEPT !.id = SortIds[i]]] :
        l \in UNION { [1..n -> GeomLayerChoices] : n \in 0..MaxGeomLayers } }

GeomOffsets == { Pt(R(0), R(0)), Pt(R(-650), R(1200)) }

GeomScales == { Num(1, 2), R(2) }

InitGeom ==
    /\ \E ls \in GeomLayerLists, off \in GeomOffsets, sc \in GeomScales, sz \in PhysSizes :
          InitWidget(ls, NoLayer, off, sc, sz[1], sz[2]) /\ pointerIn = TRUE
    /\ InitPersistence(<<>>, 0)

\* The host pans the main canvas.
HostPan(off) ==
    /\ off # canvasOffset
    /\ canvasOffset' = off
    /\ RenderProps(layers, off, scale)
    /\ lastEvent' = Event("pan", None, 0, None)
    /\ UNCHANGED <<persistVars, layers, selectedLayerId, scale, windowVars, sortedLayers, minimapZoom,
                   isDraggingViewport, dragOffsetRef, pointerVars, steps>>

NextGeom ==
    \/ \E off \in GeomOffsets : HostPan(off)
    \/ \E d \in WheelDeltas : (Wheel(d) /\ UNCHANGED steps)

SpecGeom == InitGeom /\ [][NextGeom]_vars

(***************************************************************************)
(* The persistence service: saveHistory.  A state of the history is        *)
(* identified by the number under which the application created it.        *)
(***************************************************************************)
MAX_HISTORY_STATES == 20

\* Array.prototype.slice(start) with one argument: a negative start counts
\* from the end, and the start is kept within the array.
slice(s, start) ==
    LET begin == IF start < 0 THEN (IF Len(s) + start < 0 THEN 0 ELSE Len(s) + start)
                 ELSE (IF start > Len(s) THEN Len(s) ELSE start)
    IN  SubSeq(s, begin + 1, Len(s))

trimmedHistory(h) == slice(h, -MAX_HISTORY_STATES)

\* The index stored without the shift by the number of dropped states.
adjustedIndex_unshifted(h, i) == IF i < 0 THEN 0 ELSE i

adjustedIndex(h, i) ==
    LET shifted == i - (Len(h) - Len(trimmedHistory(h)))
    IN  IF shifted < 0 THEN 0 ELSE shifted

\* How a saveHistory call settles: the transaction completes and the promise
\* resolves, the transaction fails and the promise rejects, or opening the
\* database fails, the error is logged and nothing is written.
SaveOutcomes == {"resolved", "rejected", "logged"}

\* What can fail in one call: nothing, indexedDB.open (request.onerror in
\* initDB), or the request or transaction made on the open database.
Failures == {"none", "open", "request"}

\* initDB opens the database only while dbInstance is null.
CanFail(f) == f = "open" => ~dbInstance

\* dbInstance after a call in which f failed.
initDB(f) == dbInstance \/ f # "open"

\* The record of a call: the operation, what failed in it, how the returned
\* promise settled and the value it resolved to (None for undefined or null).
Call(op, f, settled, value) ==
    [op |-> op, failure |-> f, settled |-> settled, value |-> value]

\* A function that awaits initDB inside try/catch and returns the promise of
\* the request without awaiting it: a failure of initDB is caught, a
\* rejection of the returned promise is not.
settleReturned(f) == IF f = "request" THEN "rejected" ELSE "resolved"

\* The same function with the promise of the request awaited inside the try.
settleAwaited(f) == "resolved"

\* What failed in a saveHistory call that settled as outcome.
FailureOf(outcome) ==
    IF outcome = "logged" THEN "open"
    ELSE IF outcome = "rejected" THEN "request"
    ELSE "none"

\* saveHistory(history, historyIndex).
SaveHistory ==
    \E outcome \in SaveOutcomes :
        /\ outcome = "logged" => ~dbInstance
        /\ stateStore' =
              IF outcome = "resolved"
              THEN Some([history |-> trimmedHistory(history),
                         index |-> adjustedIndex(history, historyIndex)])
              ELSE stateStore
        /\ saveResult' = outcome
        /\ dbInstance' = (dbInstance \/ outcome # "logged")
        /\ lastCall' = Call("saveHistory", FailureOf(outcome),
                            settleReturned(FailureOf(outcome)), None)
        /\ UNCHANGED <<widgetVars, history, historyIndex, layersStore, viewStateStore>>

\* The longest history the application passes.
MaxHistoryLen == 22

\* Histories of 0 to MaxHistoryLen states, with every index into them.
InitHistory ==
    /\ InitWidget(<<>>, NoLayer, Pt(R(0), R(0)), R(1), 500, 500)
    /\ pointerIn = FALSE
    /\ \E n \in 0..MaxHistoryLen :
          \E i \in 0..(IF n = 0 THEN 0 ELSE n - 1) :
              InitPersistence([k \in 1..n |-> k], i)

NextHistory == SaveHistory

SpecHistory == InitHistory /\ [][NextHistory]_vars

(***************************************************************************)
(* The persistence service: every operation, with the failures of the      *)
(* database.  A stored layer keeps what loadLayers reads of it: its id,    *)
(* its type, whether it has a src and whether it has a thumbnail.          *)
(***************************************************************************)
LayerData(id, type, src, thumbnail) ==
    [id |-> id, type |-> type, src |-> src, thumbnail |-> thumbnail]

\* Layer lists the application saves: none, an image saved before thumbnails
\* existed, an image with its thumbnail next to a note.
PersistLayerLists ==
    { <<>>,
      << LayerData("a", "image", TRUE, FALSE) >>,
      << LayerData("a", "image", TRUE, TRUE), LayerData("n", "note", FALSE, FALSE) >> }

\* View states the application saves.
ViewStates ==
    { [offset |-> Pt(R(0), R(0)), scale |-> R(1)],
      [offset |-> Pt(R(-650), R(1200)), scale |-> R(2)] }

\* saveLayers(ls).
SaveLayers(ls) ==
    \E f \in Failures :
        /\ CanFail(f)
        /\ dbInstance' = initDB(f)
        /\ layersStore' = IF f = "none" THEN Some(ls) ELSE layersStore
        /\ lastCall' = Call("saveLayers", f, settleReturned(f), None)
        /\ UNCHANGED <<widgetVars, history, historyIndex, stateStore, saveResult,
                       viewStateStore>>

\* The layer needs a thumbnail (type image, a src, no thumbnail).
needsThumbnail(layer) == layer.type = "image" /\ layer.src /\ ~layer.thumbnail

\* The migration of loadLayers: generateThumbnail succeeds for the layers i
\* with ok[i], and a layer whose thumbnail fails is kept as it is.
migratedLayers(ls, ok) ==
    [i \in 1..Len(ls) |->
        IF needsThumbnail(ls[i]) /\ ok[i] THEN [ls[i] EXCEPT !.thumbnail = TRUE] ELSE ls[i]]

needsSave(ls, ok) == \E i \in 1..Len(ls) : needsThumbnail(ls[i]) /\ ok[i]

\* loadLayers(): f is what fails in the read, fs what fails in the saveLayers
\* call that writes the migrated layers back.
LoadLayers ==
    \E f \in Failures, fs \in {"none", "request"} :
        /\ CanFail(f)
        /\ dbInstance' = initDB(f)
        /\ IF f # "none" \/ layersStore = None
           THEN /\ fs = "none"
                /\ lastCall' = Call("loadLayers", f, settleAwaited(f), None)
                /\ UNCHANGED layersStore
           ELSE \E ok \in [1..Len(Val(layersStore)) -> BOOLEAN] :
                  LET ls == Val(layersStore)
                      migrated == migratedLayers(ls, ok)
                  IN  /\ \A i \in 1..Len(ls) : ~needsThumbnail(ls[i]) => ok[i]
                      /\ ~needsSave(ls, ok) => fs = "none"
                      /\ layersStore' = IF needsSave(ls, ok) /\ fs = "none"
                                        THEN Some(migrated) ELSE layersStore
                      /\ lastCall' = Call("loadLayers", fs, settleAwaited(fs),
                                          IF fs = "none" THEN Some(migrated) ELSE None)
        /\ UNCHANGED <<widgetVars, history, historyIndex, stateStore, saveResult,
                       viewStateStore>>

\* saveViewState(offset, scale).
SaveViewState(vs) ==
    \E f \in Failures :
        /\ CanFail(f)
        /\ dbInstance' = initDB(f)
        /\ viewStateStore' = IF f = "none" THEN Some(vs) ELSE viewStateStore
        /\ lastCall' = Call("saveViewState", f, settleReturned(f), None)
        /\ UNCHANGED <<widgetVars, history, historyIndex, stateStore, saveResult,
                       layersStore>>

\* loadViewState().
LoadViewState ==
    \E f \in Failures :
        /\ CanFail(f)
        /\ dbInstance' = initDB(f)
        /\ lastCall' = Call("loadViewState", f, settleReturned(f),
                            IF f = "none" THEN viewStateStore ELSE None)
        /\ UNCHANGED <<widgetVars, history, historyIndex, stateStore, saveResult,
                       layersStore, viewStateStore>>

\* loadHistory().
LoadHistory ==
    \E f \in Failures :
        /\ CanFail(f)
        /\ dbInstance' = initDB(f)
        /\ lastCall' = Call("loadHistory", f, settleReturned(f),
                            IF f = "none" THEN stateStore ELSE None)
        /\ UNCHANGED <<widgetVars, history, historyIndex, stateStore, saveResult,
                       layersStore, viewStateStore>>

\* clearAllData().
ClearAllData ==
    \E f \in Failures :
        /\ CanFail(f)
        /\ dbInstance' = initDB(f)
        /\ layersStore' = IF f = "none" THEN None ELSE layersStore
        /\ stateStore' = IF f = "none" THEN None ELSE stateStore
        /\ viewStateStore' = IF f = "none" THEN None ELSE viewStateStore
        /\ lastCall' = Call("clearAllData", f, settleReturned(f), None)
        /\ UNCHANGED <<widgetVars, history, historyIndex, saveResult>>

\* The application holds no history or a history of three states.
InitPersist ==
    /\ InitWidget(<<>>, NoLayer, Pt(R(0), R(0)), R(1), 500, 500)
    /\ pointerIn = FALSE
    /\ \/ InitPersistence(<<>>, 0)
       \/ InitPersistence(<<1, 2, 3>>, 1)

NextPersist ==
    \/ \E ls \in PersistLayerLists : SaveLayers(ls)
    \/ LoadLayers
    \/ \E vs \in ViewStates : SaveViewState(vs)
    \/ LoadViewState
    \/ SaveHistory
    \/ LoadHistory
    \/ ClearAllData

SpecPersist == InitPersist /\ [][NextPersist]_vars

(***************************************************************************)
(* Properties.                                                             *)
(***************************************************************************)

\* C1: the click that ends a gesture begun by a mousedown on the viewport
\* marker passes no offset to onViewportChange.
C1_ClickAfterDragSuppressed ==
    (lastEvent.kind = "click" /\ downTarget = "marker") => lastEvent.emitted = None

\* C2: a mouseup that arrives while a drag is active ends the drag, inside the
\* widget or outside it, and the drag is never active with the button released.
C2_NoStuckDrag ==
    /\ lastEvent.kind = "up" => ~isDraggingViewport
    /\ isDraggingViewport => buttonDown

\* A mouseup has just ended an active drag.
C2_Witness ==
    lastEvent.kind = "up" /\ lastEvent.dragging /\ ~isDraggingViewport /\ ~buttonDown

\* clamp(v, 0.5, 3.0)
Clamped(v) == IF Lt(v, Num(1, 2)) THEN Num(1, 2) ELSE IF Lt(R(3), v) THEN R(3) ELSE v

\* C3: minimapZoom starts at 1, stays in [0.5, 3.0], and a wheel event with
\* deltaY sets it to clamp(zoom - deltaY * 0.002, 0.5, 3.0).
C3_ZoomClamped ==
    /\ steps = 0 => minimapZoom = R(1)
    /\ [](Le(Num(1, 2), minimapZoom) /\ Le(minimapZoom, R(3)))
    /\ [][lastEvent'.kind = "wheel" =>
            minimapZoom' = Clamped(Sub(minimapZoom, Num(lastEvent'.deltaY * 2, 1000)))]_vars

\* A wheel event whose step exceeds the whole range has been clamped to 3.0.
C3_Witness ==
    /\ lastEvent.kind = "wheel"
    /\ lastEvent.deltaY = -1500
    /\ minimapZoom = R(3)

\* Every group-type layer of s stands before every layer of another type.
GroupsFirst(s) ==
    \A i, j \in 1..Len(s) : (s[i].type = "group" /\ s[j].type # "group") => i < j

\* C4 as stated: with a selected layer in the list, groups stand before
\* non-groups and the selected layer is the last element whatever its type.
C4_SelectedLast ==
    selectedLayerId \in LayerIds(layers) =>
        /\ GroupsFirst(sortedLayers)
        /\ sortedLayers[Len(sortedLayers)].id = selectedLayerId

\* C4 amended: groups stand before non-groups, and the selected layer is the
\* last of the layers of its kind (last of all unless it is a group and a
\* non-group layer exists, and then the last of the groups).
C4_SelectedLastOfItsKind ==
    selectedLayerId \in LayerIds(layers) =>
        /\ Len(sortedLayers) = Len(layers)
        /\ GroupsFirst(sortedLayers)
        /\ \A i, j \in 1..Len(sortedLayers) :
              (/\ sortedLayers[i].id = selectedLayerId
               /\ (sortedLayers[i].type = "group") = (sortedLayers[j].type = "group"))
              => j <= i

\* A selected group has been sorted among layers that include a non-group
\* layer and a further group that stood after it in the list.
C4_Witness ==
    /\ selectedLayerId = "a"
    /\ Len(layers) = 4
    /\ layers[1].type = "group"
    /\ layers[2].type = "image"
    /\ layers[3].type = "group"
    /\ sortedLayers[2].id = "a"

\* Rectangle outer contains rectangle inner.
Contains(outer, inner) ==
    /\ Le(outer.x, inner.x)
    /\ Le(outer.y, inner.y)
    /\ Le(Add(inner.x, inner.width), Add(outer.x, outer.width))
    /\ Le(Add(inner.y, inner.height), Add(outer.y, outer.height))

CurrentViewport == getViewportInWorld(canvasOffset, scale, innerWidth, innerHeight)

\* C5: the content bounds computed from the layers, the view state and the
\* window size contain every layer rectangle and the viewport rectangle.
C5_BoundsContainContent ==
    LET cb == contentBoundsOf(layers, CurrentViewport)
    IN  /\ Contains(cb, CurrentViewport)
        /\ \A i \in 1..Len(layers) : Contains(cb, layers[i])

\* Bounds have been computed after a pan for two layers, one of which lies
\* outside the viewport.
C5_Witness ==
    /\ lastEvent.kind = "pan"
    /\ Len(layers) = 2
    /\ contentBounds = contentBoundsOf(layers, CurrentViewport)
    /\ ~Contains(CurrentViewport, layers[1])
    /\ Lt(R(0), layers[2].width)

\* C6: the transform built on the content bounds in use is finite with a
\* non-zero scale, and the coordinates worldToMinimap and minimapToWorld
\* return are finite, also when the bounds have no extent.
C6_TransformFinite ==
    /\ IsFinite(fitScale(contentBounds, minimapZoom))
    /\ fitScale(contentBounds, minimapZoom).n # 0
    /\ IsFinite(offsetX(contentBounds, minimapZoom))
    /\ IsFinite(offsetY(contentBounds, minimapZoom))
    /\ IsFinite(worldToMinimap(contentBounds, minimapZoom, contentBounds.x, contentBounds.y).x)
    /\ IsFinite(worldToMinimap(contentBounds, minimapZoom, contentBounds.x, contentBounds.y).y)
    /\ \A p \in PointerPositions :
          /\ IsFinite(minimapToWorld(contentBounds, minimapZoom, R(p.x), R(p.y)).x)
          /\ IsFinite(minimapToWorld(contentBounds, minimapZoom, R(p.x), R(p.y)).y)

\* C7: when a click or a mousemove is handled, the content bounds the
\* handlers use are the bounds of the current layers, view state and window
\* size.
C7_BoundsCurrent ==
    lastEvent.kind \in {"click", "move"} =>
        contentBounds = contentBoundsOf(layers, CurrentViewport)

\* The window has a size, the bounds in use and the marker are those of the
\* current inputs, and the bounds have an extent.
BoundsCurrent ==
    /\ innerWidth > 0
    /\ innerHeight > 0
    /\ contentBounds = contentBoundsOf(layers, CurrentViewport)
    /\ viewportRect = viewportRectOf(CurrentViewport, contentBounds, minimapZoom)
    /\ IsFinite(canvasOffset.x)
    /\ IsFinite(canvasOffset.y)
    /\ Lt(R(0), contentBounds.width)
    /\ Lt(R(0), contentBounds.height)

\* C8, in the states where the bounds are current and have an extent: the
\* viewport marker lies inside the 200 x 150 display at every zoom.
C8_MarkerInsideDisplay ==
    BoundsCurrent =>
        /\ Le(R(0), viewportRect.x)
        /\ Le(R(0), viewportRect.y)
        /\ Le(Add(viewportRect.x, viewportRect.width), R(MINIMAP_WIDTH))
        /\ Le(Add(viewportRect.y, viewportRect.height), R(MINIMAP_HEIGHT))

\* C9: a click at m handled while no drag is active passes one offset to
\* onViewportChange, the one that makes w = minimapToWorld(m) the centre of
\* the viewport; a click handled during a drag passes none.
C9_ClickCentres ==
    lastEvent.kind = "click" =>
        IF lastEvent.dragging THEN lastEvent.emitted = None
        ELSE /\ lastEvent.emitted # None
             /\ LET o == Val(lastEvent.emitted)
                    m == Val(lastEvent.pt)
                    w == minimapToWorld(contentBounds, minimapZoom, R(m.x), R(m.y))
                IN  /\ Eq(Div(Neg(o.x), scale),
                          Sub(w.x, Div(R(innerWidth), Mul(R(2), scale))))
                    /\ Eq(Div(Neg(o.y), scale),
                          Sub(w.y, Div(R(innerHeight), Mul(R(2), scale))))

\* C10: the first mousemove of a drag, at the position of the mousedown,
\* passes the current canvasOffset to onViewportChange.
C10_NoJumpOnDragStart ==
    [][(/\ lastEvent.kind = "down"
        /\ isDraggingViewport
        /\ lastEvent'.kind = "move"
        /\ lastEvent'.pt = lastEvent.pt)
       => (/\ lastEvent'.emitted # None
           /\ Eq(Val(lastEvent'.emitted).x, canvasOffset.x)
           /\ Eq(Val(lastEvent'.emitted).y, canvasOffset.y))]_vars

\* C11, for two successive mousemoves of a drag at the same pointer position
\* with the first proposal applied by the host in between: the second
\* mousemove passes the same offset, now the canvasOffset, to onViewportChange.
C11_LinearTracking ==
    [][(/\ lastEvent.kind = "apply"
        /\ lastEvent.dragging
        /\ lastEvent'.kind = "move"
        /\ lastEvent'.pt = lastEvent.pt)
       => (/\ lastEvent'.emitted # None
           /\ Eq(Val(lastEvent'.emitted).x, canvasOffset.x)
           /\ Eq(Val(lastEvent'.emitted).y, canvasOffset.y))]_vars

\* The bounds are finite and have a positive width and height.
NonDegenerate(cb) ==
    /\ IsFinite(cb.x)
    /\ IsFinite(cb.y)
    /\ IsFinite(cb.width)
    /\ IsFinite(cb.height)
    /\ Lt(R(0), cb.width)
    /\ Lt(R(0), cb.height)

\* World points inside and outside the content.
WorldPoints == { Pt(R(0), R(0)), Pt(R(-400), R(300)), Pt(Num(2501, 3), R(-1200)) }

\* C12: over bounds with a positive width and height and at every zoom,
\* minimapToWorld undoes worldToMinimap on every world point and
\* worldToMinimap undoes minimapToWorld on every minimap point.
C12_RoundTrip ==
    NonDegenerate(contentBounds) =>
        /\ \A p \in WorldPoints :
              LET m == worldToMinimap(contentBounds, minimapZoom, p.x, p.y)
                  w == minimapToWorld(contentBounds, minimapZoom, m.x, m.y)
              IN  Eq(w.x, p.x) /\ Eq(w.y, p.y)
        /\ \A m \in PointerPositions :
              LET w == minimapToWorld(contentBounds, minimapZoom, R(m.x), R(m.y))
                  b == worldToMinimap(contentBounds, minimapZoom, w.x, w.y)
              IN  Eq(b.x, R(m.x)) /\ Eq(b.y, R(m.y))

\* The wheel has set the zoom to 3 over the bounds of two layers and a panned
\* viewport, and the transform moves the world origin.
C12_Witness ==
    /\ lastEvent.kind = "wheel"
    /\ minimapZoom = R(3)
    /\ Len(layers) = 2
    /\ canvasOffset # Pt(R(0), R(0))
    /\ NonDegenerate(contentBounds)
    /\ ~Eq(worldToMinimap(contentBounds, minimapZoom, R(0), R(0)).x, R(0))

\* C13: with no layers the content bounds are the viewport rectangle inflated
\* on every side by a tenth of its larger dimension, the viewport marker is
\* computed from them and no layer shape is rendered.
C13_EmptyLayersBounds ==
    Len(layers) = 0 =>
        LET vp == CurrentViewport
            padding == Mul(Num(1, 10), Max(vp.width, vp.height))
        IN  /\ Eq(contentBounds.x, Sub(vp.x, padding))
            /\ Eq(contentBounds.y, Sub(vp.y, padding))
            /\ Eq(contentBounds.width, Add(vp.width, Mul(R(2), padding)))
            /\ Eq(contentBounds.height, Add(vp.height, Mul(R(2), padding)))
            /\ viewportRect = viewportRectOf(vp, contentBounds, minimapZoom)
            /\ sortedLayers = <<>>

\* No layers, a 1000 x 1000 window at scale 1/2 after a pan: the viewport is
\* 2000 wide and the bounds 2400.
C13_Witness ==
    /\ Len(layers) = 0
    /\ lastEvent.kind = "pan"
    /\ innerWidth = 1000
    /\ scale = Num(1, 2)
    /\ contentBounds.width = R(2400)
    /\ IsFinite(viewportRect.x)
    /\ Lt(R(0), viewportRect.width)

\* C14: an active drag ends only by a mouseup; a mousemove, the pointer
\* leaving the widget with the button held, a wheel event or a click leave
\* it active.
C14_DragEndsOnlyOnRelease ==
    [][(isDraggingViewport /\ ~isDraggingViewport') => lastEvent'.kind = "up"]_vars

\* C15: a mousemove handled during a drag and a click handled while idle
\* each pass one offset to onViewportChange; a mousemove while idle, a click
\* during a drag and every other event pass none, and a mouseup leaves the
\* canvasOffset as the last applied proposal set it.
C15_EmissionCounts ==
    /\ [](/\ (lastEvent.kind = "move" /\ lastEvent.dragging) => lastEvent.emitted # None
          /\ (lastEvent.kind = "move" /\ ~lastEvent.dragging) => lastEvent.emitted = None
          /\ (lastEvent.kind = "click" /\ ~lastEvent.dragging) => lastEvent.emitted # None
          /\ (lastEvent.kind = "click" /\ lastEvent.dragging) => lastEvent.emitted = None
          /\ lastEvent.kind \notin {"move", "click"} => lastEvent.emitted = None)
    /\ [][lastEvent'.kind \in {"up", "leave", "down", "wheel"} =>
            canvasOffset' = canvasOffset]_vars

\* A drag whose proposal the host applied has been ended by a mouseup, and
\* the canvasOffset is the applied one.
C15_Witness ==
    /\ lastEvent.kind = "up"
    /\ lastEvent.dragging
    /\ lastEvent.emitted = None
    /\ canvasOffset # Pt(R(0), R(0))

\* C16: the drag becomes active only by a mousedown on the viewport marker,
\* and dragOffsetRef is written only in that step, with the offset of the
\* pointer from the centre of the marker.
C16_DragStartsOnlyOnMarker ==
    /\ [][(~isDraggingViewport /\ isDraggingViewport') =>
            (/\ lastEvent'.kind = "down"
             /\ downTarget' = "marker"
             /\ OnMarker(Val(lastEvent'.pt))
             /\ dragOffsetRef' = handleViewportMouseDown(Val(lastEvent'.pt)))]_vars
    /\ [][dragOffsetRef' # dragOffsetRef =>
            (~isDraggingViewport /\ isDraggingViewport')]_vars
    /\ [][(lastEvent'.kind = "down" /\ downTarget' # "marker") =>
            ~isDraggingViewport']_vars

\* A mousedown on the marker away from its centre has started a drag and
\* written the grab offset.
C16_Witness ==
    /\ lastEvent.kind = "down"
    /\ downTarget = "marker"
    /\ ~lastEvent.dragging
    /\ isDraggingViewport
    /\ dragOffsetRef # Pt(R(0), R(0))

C18_ZoomMonotonic ==
    [][lastEvent'.kind = "wheel" =>
        (/\ lastEvent'.deltaY < 0 =>
                /\ Le(minimapZoom, minimapZoom')
                /\ Lt(minimapZoom, R(3)) => Lt(minimapZoom, minimapZoom')
         /\ lastEvent'.deltaY > 0 =>
                /\ Le(minimapZoom', minimapZoom)
                /\ Lt(Num(1, 2), minimapZoom) => Lt(minimapZoom', minimapZoom)
         /\ lastEvent'.deltaY = 0 => minimapZoom' = minimapZoom)]_vars

\* The wheel has raised the zoom to 3.0 and then lowered it by one step of
\* 250 to 2.5.
C18_Witness ==
    /\ lastEvent.kind = "wheel"
    /\ lastEvent.deltaY = 250
    /\ minimapZoom = Num(5, 2)

\* The minimap point m lies in the display area.
InDisplay(m) ==
    /\ Le(R(0), m.x)
    /\ Le(m.x, R(MINIMAP_WIDTH))
    /\ Le(R(0), m.y)
    /\ Le(m.y, R(MINIMAP_HEIGHT))

\* The four corners of the world rectangle r are mapped into the display area.
CornersInDisplay(r) ==
    \A cx \in {r.x, Add(r.x, r.width)}, cy \in {r.y, Add(r.y, r.height)} :
        InDisplay(worldToMinimap(contentBounds, minimapZoom, cx, cy))

\* C19: at zoom 1 and with bounds of positive width and height, the content
\* bounds map into the display area with equal margins left and right and
\* top and bottom, and so do every layer rectangle and the viewport marker.
C19_DefaultZoomFits ==
    (minimapZoom = R(1) /\ NonDegenerate(contentBounds)) =>
        LET tl == worldToMinimap(contentBounds, minimapZoom, contentBounds.x, contentBounds.y)
            br == worldToMinimap(contentBounds, minimapZoom,
                                 Add(contentBounds.x, contentBounds.width),
                                 Add(contentBounds.y, contentBounds.height))
        IN  /\ CornersInDisplay(contentBounds)
            /\ Eq(tl.x, Sub(R(MINIMAP_WIDTH), br.x))
            /\ Eq(tl.y, Sub(R(MINIMAP_HEIGHT), br.y))
            /\ \A i \in 1..Len(layers) : CornersInDisplay(layers[i])
            /\ CornersInDisplay(CurrentViewport)
            /\ InDisplay(viewportRect)
            /\ InDisplay([x |-> Add(viewportRect.x, viewportRect.width),
                          y |-> Add(viewportRect.y, viewportRect.height)])

\* The wheel has brought the zoom back to 1 over two layers of which the
\* first lies outside the panned viewport.
C19_Witness ==
    /\ lastEvent.kind = "wheel"
    /\ lastEvent.deltaY = 250
    /\ minimapZoom = R(1)
    /\ Len(layers) = 2
    /\ canvasOffset # Pt(R(0), R(0))
    /\ NonDegenerate(contentBounds)
    /\ ~Contains(CurrentViewport, layers[1])

\* C20: a saveHistory call that completes stores the last min(n, 20) states
\* of the history in their order with the index max(0, historyIndex - dropped);
\* for an index into the history the stored index is an index into the stored
\* states, and it designates the same state when that state is retained.
C20_HistoryTrimmed ==
    saveResult = "resolved" =>
        /\ stateStore # None
        /\ LET st == Val(stateStore)
               n == Len(history)
               k == Len(st.history)
               dropped == n - k
           IN  /\ k = (IF n < 20 THEN n ELSE 20)
               /\ \A j \in 1..k : st.history[j] = history[dropped + j]
               /\ st.index = (IF historyIndex - dropped < 0 THEN 0
                              ELSE historyIndex - dropped)
               /\ (0 <= historyIndex /\ historyIndex < n) =>
                      /\ 0 <= st.index
                      /\ st.index <= k - 1
                      /\ historyIndex >= dropped =>
                             st.history[st.index + 1] = history[historyIndex + 1]

\* A history of 22 states at index 5 has been saved: two states are dropped
\* and the stored index is 3.
C20_Witness ==
    /\ saveResult = "resolved"
    /\ Len(history) = 22
    /\ historyIndex = 5
    /\ Len(Val(stateStore).history) = 20
    /\ Val(stateStore).index = 3

\* C21: the promise of every persistence operation resolves, and when
\* opening the database, the request or the transaction failed it resolves
\* with no value (undefined for the writes, null for the reads).
C21_NoRejection ==
    lastCall.op # "none" =>
        /\ lastCall.settled = "resolved"
        /\ lastCall.failure # "none" => lastCall.value = None

====
